---- MODULE Spec2Model ----
(***************************************************************************)
(* A model of src/toy.cpp: the character scanner (gettok), the recursive   *)
(* descent / precedence climbing parser and the top-level driver loop.     *)
(*                                                                         *)
(* Characters are one-character strings, the result of getchar() at end of *)
(* input is the string EOF.  Tokens are integers as in the code: the       *)
(* negative members of enum Token, or the ASCII code of a character.        *)
(* Strings of the program (IdentifierStr, NumStr) are sequences of          *)
(* characters.  The statics of the program are the variables; the parsing  *)
(* functions are operators that thread a record of those statics, together *)
(* with the depth of the call stack at which they run.                     *)
(***************************************************************************)
EXTENDS Integers, Sequences, FiniteSets, TLC

VARIABLES
    chunks,          \* the pieces the text on standard input is made of
    input,           \* the characters on standard input
    pos,             \* index of the next character getchar() will return
    LastChar,        \* gettok's static LastChar
    IdentifierStr,   \* filled in if tok_identifier
    NumberVal,       \* filled in if tok_number
    CurTok,          \* the parser's lookahead token
    BinopPrecedence, \* the precedence table (std::map<char,int>)
    stderr,          \* the diagnostics written so far
    ntok,            \* number of non-EOF tokens gettok has returned
    pc,              \* where main() is: "start", "loop" or "done"
    last             \* what the last step did (its result, its stack depth, ...)

vars == <<chunks, input, pos, LastChar, IdentifierStr, NumberVal, CurTok,
          BinopPrecedence, stderr, ntok, pc, last>>

----------------------------------------------------------------------------
(* enum Token *)
tok_eof == -1
tok_def == -2
tok_extern == -3
tok_identifier == -4
tok_number == -5

(* <cctype> and <cstdio> *)
EOF == "EOF"
Lower == {"a","b","c","d","e","f","g","h","i","j","k","l","m",
          "n","o","p","q","r","s","t","u","v","w","x","y","z"}
Upper == {"A","B","C","D","E","F","G","H","I","J","K","L","M",
          "N","O","P","Q","R","S","T","U","V","W","X","Y","Z"}
Digits == {"0","1","2","3","4","5","6","7","8","9"}
isspace(c) == c \in {" ", "\n", "\r", "\t"}
isalpha(c) == c \in Lower \cup Upper
isdigit(c) == c \in Digits
isalnum(c) == isalpha(c) \/ isdigit(c)
isascii(t) == t >= 0 /\ t <= 127

(* The ASCII code of the characters gettok returns as themselves. *)
Ord(c) ==
    CASE c = "!" -> 33 [] c = "(" -> 40 [] c = ")" -> 41 [] c = "*" -> 42
      [] c = "+" -> 43 [] c = "," -> 44 [] c = "-" -> 45 [] c = "/" -> 47
      [] c = ";" -> 59 [] c = "<" -> 60 [] c = "=" -> 61 [] c = ">" -> 62

DigitVal(c) ==
    CASE c = "0" -> 0 [] c = "1" -> 1 [] c = "2" -> 2 [] c = "3" -> 3
      [] c = "4" -> 4 [] c = "5" -> 5 [] c = "6" -> 6 [] c = "7" -> 7
      [] c = "8" -> 8 [] c = "9" -> 9

Max(a, b) == IF a >= b THEN a ELSE b

(* Let(e, LAMBDA x : b) is b with x the value of e, computed once. *)
Let(v, Fn(_)) == CHOOSE r \in {Fn(x) : x \in {v}} : TRUE

(* Entering a function whose frame is the d-th on the call stack. *)
Enter(s, d) == [s EXCEPT !.maxd = Max(@, d)]

----------------------------------------------------------------------------
(* strtod(NumStr, 0): the value of the longest prefix digits* [. digits*]  *)
(* that holds a digit, as integer part and fraction digits (trailing zeros *)
(* dropped); 0 when there is no such prefix.                               *)
RECURSIVE DigitRun(_, _)
DigitRun(str, i) ==
    IF i <= Len(str) /\ isdigit(str[i]) THEN 1 + DigitRun(str, i + 1) ELSE 0

RECURSIVE DecVal(_)
DecVal(ds) ==
    IF ds = <<>> THEN 0
    ELSE 10 * DecVal(SubSeq(ds, 1, Len(ds) - 1)) + DigitVal(ds[Len(ds)])

RECURSIVE StripZeros(_)
StripZeros(ds) ==
    IF ds # <<>> /\ ds[Len(ds)] = "0"
    THEN StripZeros(SubSeq(ds, 1, Len(ds) - 1)) ELSE ds

strtod(str) ==
    LET n == DigitRun(str, 1)
        dot == n + 1 <= Len(str) /\ str[n + 1] = "."
        m == IF dot THEN DigitRun(str, n + 2) ELSE 0
    IN  IF n + m = 0 THEN [int |-> 0, frac |-> <<>>]
        ELSE [int |-> DecVal(SubSeq(str, 1, n)),
              frac |-> StripZeros(SubSeq(str, n + 2, n + 1 + m))]

----------------------------------------------------------------------------
(* LastChar = getchar() *)
getchar(s) ==
    IF s.pos <= Len(s.in)
    THEN [s EXCEPT !.LastChar = s.in[s.pos], !.pos = @ + 1]
    ELSE [s EXCEPT !.LastChar = EOF]

(* while (isspace(LastChar)) LastChar = getchar(); *)
RECURSIVE SkipSpace(_)
SkipSpace(s0) ==
    Let(s0, LAMBDA s : IF isspace(s.LastChar) THEN SkipSpace(getchar(s)) ELSE s)

(* while (isalnum((LastChar = getchar()))) IdentifierStr += LastChar; *)
RECURSIVE ReadIdentifier(_)
ReadIdentifier(s) ==
    Let(getchar(s), LAMBDA t :
        IF isalnum(t.LastChar)
        THEN ReadIdentifier([t EXCEPT !.IdentifierStr = Append(@, t.LastChar)])
        ELSE t)

(* do { NumStr += LastChar; LastChar = getchar(); }                        *)
(* while (isdigit(LastChar) || LastChar == '.');                           *)
(* NumberVal = strtod(NumStr.c_str(), 0);                                  *)
RECURSIVE ReadNumber(_, _)
ReadNumber(s, NumStr) ==
    Let(getchar(s), LAMBDA t :
        IF isdigit(t.LastChar) \/ t.LastChar = "."
        THEN ReadNumber(t, Append(NumStr, s.LastChar))
        ELSE [t EXCEPT !.NumberVal = strtod(Append(NumStr, s.LastChar))])

(* do LastChar = getchar();                                                *)
(* while (LastChar != EOF && LastChar != '\n' && LastChar != '\r');        *)
RECURSIVE SkipComment(_)
SkipComment(s) ==
    Let(getchar(s), LAMBDA t :
        IF t.LastChar # EOF /\ t.LastChar # "\n" /\ t.LastChar # "\r"
        THEN SkipComment(t) ELSE t)

Keyword_def == <<"d", "e", "f">>
Keyword_extern == <<"e", "x", "t", "e", "r", "n">>

(* Faulty variant: a keyword is recognised by the first letters of the    *)
(* word (a prefix comparison in place of ==).                              *)
ClassifyIdentifier_Prefix(str) ==
    IF Len(str) >= 3 /\ SubSeq(str, 1, 3) = Keyword_def THEN tok_def
    ELSE IF Len(str) >= 6 /\ SubSeq(str, 1, 6) = Keyword_extern THEN tok_extern
    ELSE tok_identifier

(* The token a finished identifier scan returns. *)
ClassifyIdentifier(str) ==
    IF str = Keyword_def THEN tok_def
    ELSE IF str = Keyword_extern THEN tok_extern
    ELSE tok_identifier

(* gettok returns the statics as it leaves them and the token.  A token    *)
(* that is not end of input counts as scanned.                             *)
Scanned(s, t) == [st |-> [s EXCEPT !.ntok = @ + 1], tok |-> t]

(* gettok - Return the next token from standard input; d is the depth of   *)
(* this call's frame.                                                      *)
RECURSIVE gettok(_, _)
gettok(s0, d) ==
    Let(SkipSpace(Enter(s0, d)), LAMBDA s :
        IF isalpha(s.LastChar)
        THEN Let(ReadIdentifier([s EXCEPT !.IdentifierStr = <<s.LastChar>>]),
                 LAMBDA t : Scanned(t, ClassifyIdentifier(t.IdentifierStr)))
        ELSE IF isdigit(s.LastChar) \/ s.LastChar = "."
        THEN Scanned(ReadNumber(s, <<>>), tok_number)
        ELSE IF s.LastChar = "#"
        THEN Let(SkipComment(s), LAMBDA c :
                 IF c.LastChar # EOF THEN gettok(c, d + 1)
                 ELSE [st |-> c, tok |-> tok_eof])
        ELSE IF s.LastChar = EOF THEN [st |-> s, tok |-> tok_eof]
        ELSE Scanned(getchar(s), Ord(s.LastChar)))

(* getNextToken: CurTok = gettok() *)
getNextToken(s, d) ==
    Let(gettok(Enter(s, d), d + 1), LAMBDA r : [r.st EXCEPT !.CurTok = r.tok])

----------------------------------------------------------------------------
(* The AST.  A std::unique_ptr that holds nothing is nullptr. *)
nullptr == [node |-> "nullptr"]
NumberExprAst(Val) == [node |-> "Number", Val |-> Val]
VariableExprAST(Name) == [node |-> "Variable", Name |-> Name]
BinaryExprAST(Op, LHS, RHS) ==
    [node |-> "Binary", Op |-> Op, LHS |-> LHS, RHS |-> RHS]
CallExprAST(Callee, Args) == [node |-> "Call", Callee |-> Callee, Args |-> Args]
PrototypeAST(Name, Args) == [node |-> "Prototype", Name |-> Name, Args |-> Args]
FunctionAST(Proto, Body) == [node |-> "Function", Proto |-> Proto, Body |-> Body]

(* std::vector<std::unique_ptr<ExprAST>> Args, as a result *)
vector(items) == [node |-> "vector", items |-> items]

(* A parsing function returns the statics as it leaves them and its result. *)
Ret(s, r) == [st |-> s, res |-> r]

(* fprintf(stderr, ...): the text, and for the record the lookahead at the *)
(* time and the number of tokens scanned so far.                           *)
fprintf(s, fn, msg) ==
    [s EXCEPT !.stderr = Append(@, [fn |-> fn, msg |-> msg, at |-> s.ntok,
                                    tok |-> s.CurTok])]

(* main() installs these before the first token is read. *)
StandardBinops == (60 :> 10) @@ (43 :> 20) @@ (45 :> 20) @@ (42 :> 40)

(* std::map::operator[]: a key the map does not hold is inserted with a    *)
(* value-initialised int.                                                  *)
MapIndex(m, k) == IF k \in DOMAIN m THEN m ELSE m @@ (k :> 0)

(* GetTokPrecedence - the precedence of the pending binary operator token. *)
GetTokPrecedence(s0, d) ==
    Let(Enter(s0, d), LAMBDA s :
        IF ~isascii(s.CurTok) THEN [st |-> s, prec |-> -1]
        ELSE Let(MapIndex(s.BinopPrecedence, s.CurTok), LAMBDA m :
                 [st |-> [s EXCEPT !.BinopPrecedence = m],
                  prec |-> IF m[s.CurTok] <= 0 THEN -1 ELSE m[s.CurTok]]))

LogError(s, d, Str) == Ret(fprintf(Enter(s, d), "LogError", Str), nullptr)

LogErrorP(s, d, Str) == LogError(Enter(s, d), d + 1, Str)

RECURSIVE ParseExpression(_, _)
RECURSIVE ParsePrimary(_, _)
RECURSIVE ParseBinOpRHS(_, _, _, _)
RECURSIVE ParseParenExpr(_, _)
RECURSIVE ParseIdentifierExpr(_, _)
RECURSIVE ParseArguments(_, _, _)

(* numberexpr ::= number *)
ParseNumberExpr(s0, d) ==
    Let(Enter(s0, d), LAMBDA s :
        Ret(getNextToken(s, d + 1), NumberExprAst(s.NumberVal)))

(* Faulty variant: the closing ')' is checked and not eaten. *)
ParseParenExpr_ClosingNotEaten(s, d) ==
    Let(ParseExpression(getNextToken(Enter(s, d), d + 1), d + 1), LAMBDA V :
        IF V.res = nullptr THEN Ret(V.st, nullptr)
        ELSE IF V.st.CurTok # Ord(")") THEN LogError(V.st, d + 1, "expected ')'")
        ELSE Ret(V.st, V.res))

(* parenexpr ::= '(' expression ')' *)
ParseParenExpr(s, d) ==
    Let(ParseExpression(getNextToken(Enter(s, d), d + 1), d + 1), LAMBDA V :
        IF V.res = nullptr THEN Ret(V.st, nullptr)
        ELSE IF V.st.CurTok # Ord(")") THEN LogError(V.st, d + 1, "expected ')'")
        ELSE Ret(getNextToken(V.st, d + 1), V.res))

(* The while (1) loop of ParseIdentifierExpr, one turn; the result is the  *)
(* vector Args, or nullptr.                                                *)
ParseArguments(s, d, Args) ==
    Let(ParseExpression(s, d + 1), LAMBDA Arg :
        IF Arg.res = nullptr THEN Ret(Arg.st, nullptr)
        ELSE IF Arg.st.CurTok = Ord(")")
        THEN Ret(Arg.st, vector(Append(Args, Arg.res)))
        ELSE IF Arg.st.CurTok # Ord(",")
        THEN LogError(Arg.st, d + 1, "Expected ')' or ',' in argument list")
        ELSE ParseArguments(getNextToken(Arg.st, d + 1), d,
                            Append(Args, Arg.res)))

(* Faulty variant: the ')' that ends the arguments is not eaten. *)
ParseIdentifierExpr_ClosingNotEaten(s0, d) ==
    Let(Enter(s0, d).IdentifierStr, LAMBDA IdName :
    Let(getNextToken(Enter(s0, d), d + 1), LAMBDA s :
        IF s.CurTok # Ord("(") THEN Ret(s, VariableExprAST(IdName))
        ELSE Let(getNextToken(s, d + 1), LAMBDA t :
             Let(IF t.CurTok # Ord(")") THEN ParseArguments(t, d, <<>>)
                 ELSE Ret(t, vector(<<>>)), LAMBDA Args :
                 IF Args.res = nullptr THEN Ret(Args.st, nullptr)
                 ELSE Ret(Args.st, CallExprAST(IdName, Args.res.items))))))

(* identifierexpr ::= identifier | identifier '(' expression* ')' *)
ParseIdentifierExpr(s0, d) ==
    Let(Enter(s0, d).IdentifierStr, LAMBDA IdName :
    Let(getNextToken(Enter(s0, d), d + 1), LAMBDA s :
        IF s.CurTok # Ord("(") THEN Ret(s, VariableExprAST(IdName))
        ELSE Let(getNextToken(s, d + 1), LAMBDA t :
             Let(IF t.CurTok # Ord(")") THEN ParseArguments(t, d, <<>>)
                 ELSE Ret(t, vector(<<>>)), LAMBDA Args :
                 IF Args.res = nullptr THEN Ret(Args.st, nullptr)
                 ELSE Ret(getNextToken(Args.st, d + 1),
                          CallExprAST(IdName, Args.res.items))))))

(* primary ::= identifier | numberexpr | parenexpr *)
ParsePrimary(s0, d) ==
    Let(Enter(s0, d), LAMBDA s :
        IF s.CurTok = tok_identifier THEN ParseIdentifierExpr(s, d + 1)
        ELSE IF s.CurTok = tok_number THEN ParseNumberExpr(s, d + 1)
        ELSE IF s.CurTok = Ord("(") THEN ParseParenExpr(s, d + 1)
        ELSE LogError(s, d + 1, "unknown token when expecting an expression"))

(* expression ::= primary binoprhs *)
ParseExpression(s, d) ==
    Let(ParsePrimary(Enter(s, d), d + 1), LAMBDA LHS :
        IF LHS.res = nullptr THEN Ret(LHS.st, nullptr)
        ELSE ParseBinOpRHS(LHS.st, d + 1, 0, LHS.res))

(* Faulty variant: the pending operator never takes the right-hand side   *)
(* (the comparison TokPrec < NextPrec is left out).                        *)
ParseBinOpRHS_NoClimb(s, d, ExprPrec, LHS) ==
    Let(GetTokPrecedence(Enter(s, d), d + 1), LAMBDA TokPrec :
        IF TokPrec.prec < ExprPrec THEN Ret(TokPrec.st, LHS)
        ELSE
        Let(ParsePrimary(getNextToken(TokPrec.st, d + 1), d + 1), LAMBDA RHS :
            IF RHS.res = nullptr THEN Ret(RHS.st, nullptr)
            ELSE
            Let(GetTokPrecedence(RHS.st, d + 1), LAMBDA NextPrec :
                ParseBinOpRHS(NextPrec.st, d, ExprPrec,
                    BinaryExprAST(TokPrec.st.CurTok, LHS, RHS.res)))))

(* Faulty variant: TokPrec <= NextPrec in place of TokPrec < NextPrec, and *)
(* TokPrec in place of TokPrec + 1.                                        *)
ParseBinOpRHS_RightAssociative(s, d, ExprPrec, LHS) ==
    Let(GetTokPrecedence(Enter(s, d), d + 1), LAMBDA TokPrec :
        IF TokPrec.prec < ExprPrec THEN Ret(TokPrec.st, LHS)
        ELSE
        Let(ParsePrimary(getNextToken(TokPrec.st, d + 1), d + 1), LAMBDA RHS :
            IF RHS.res = nullptr THEN Ret(RHS.st, nullptr)
            ELSE
            Let(GetTokPrecedence(RHS.st, d + 1), LAMBDA NextPrec :
            Let(IF TokPrec.prec <= NextPrec.prec
                THEN ParseBinOpRHS(NextPrec.st, d + 1, TokPrec.prec, RHS.res)
                ELSE Ret(NextPrec.st, RHS.res), LAMBDA R :
                IF R.res = nullptr THEN Ret(R.st, nullptr)
                ELSE ParseBinOpRHS(R.st, d, ExprPrec,
                         BinaryExprAST(TokPrec.st.CurTok, LHS, R.res))))))

(* Faulty variant: the test  if (!RHS) return nullptr  after ParsePrimary  *)
(* is left out.                                                            *)
ParseBinOpRHS_FailedRHSKept(s, d, ExprPrec, LHS) ==
    Let(GetTokPrecedence(Enter(s, d), d + 1), LAMBDA TokPrec :
        IF TokPrec.prec < ExprPrec THEN Ret(TokPrec.st, LHS)
        ELSE
        Let(ParsePrimary(getNextToken(TokPrec.st, d + 1), d + 1), LAMBDA RHS :
            Let(GetTokPrecedence(RHS.st, d + 1), LAMBDA NextPrec :
            Let(IF TokPrec.prec < NextPrec.prec
                THEN ParseBinOpRHS(NextPrec.st, d + 1, TokPrec.prec + 1, RHS.res)
                ELSE Ret(NextPrec.st, RHS.res), LAMBDA R :
                IF TokPrec.prec < NextPrec.prec /\ R.res = nullptr
                THEN Ret(R.st, nullptr)
                ELSE ParseBinOpRHS(R.st, d, ExprPrec,
                         BinaryExprAST(TokPrec.st.CurTok, LHS, R.res))))))

(* Faulty variant: the recursive call is given TokPrec in place of         *)
(* TokPrec + 1, so it also takes the operators of the same precedence.     *)
ParseBinOpRHS_SamePrecedence(s, d, ExprPrec, LHS) ==
    Let(GetTokPrecedence(Enter(s, d), d + 1), LAMBDA TokPrec :
        IF TokPrec.prec < ExprPrec THEN Ret(TokPrec.st, LHS)
        ELSE
        Let(ParsePrimary(getNextToken(TokPrec.st, d + 1), d + 1), LAMBDA RHS :
            IF RHS.res = nullptr THEN Ret(RHS.st, nullptr)
            ELSE
            Let(GetTokPrecedence(RHS.st, d + 1), LAMBDA NextPrec :
            Let(IF TokPrec.prec < NextPrec.prec
                THEN ParseBinOpRHS(NextPrec.st, d + 1, TokPrec.prec, RHS.res)
                ELSE Ret(NextPrec.st, RHS.res), LAMBDA R :
                IF R.res = nullptr THEN Ret(R.st, nullptr)
                ELSE ParseBinOpRHS(R.st, d, ExprPrec,
                         BinaryExprAST(TokPrec.st.CurTok, LHS, R.res))))))

(* binoprhs ::= (binop primary)*; one turn of the while (1) loop, the next *)
(* turn being the same frame.                                              *)
ParseBinOpRHS(s, d, ExprPrec, LHS) ==
    Let(GetTokPrecedence(Enter(s, d), d + 1), LAMBDA TokPrec :
        IF TokPrec.prec < ExprPrec THEN Ret(TokPrec.st, LHS)
        ELSE
        Let(ParsePrimary(getNextToken(TokPrec.st, d + 1), d + 1), LAMBDA RHS :
            IF RHS.res = nullptr THEN Ret(RHS.st, nullptr)
            ELSE
            Let(GetTokPrecedence(RHS.st, d + 1), LAMBDA NextPrec :
            Let(IF TokPrec.prec < NextPrec.prec
                THEN ParseBinOpRHS(NextPrec.st, d + 1, TokPrec.prec + 1, RHS.res)
                ELSE Ret(NextPrec.st, RHS.res), LAMBDA R :
                IF R.res = nullptr THEN Ret(R.st, nullptr)
                ELSE ParseBinOpRHS(R.st, d, ExprPrec,
                         BinaryExprAST(TokPrec.st.CurTok, LHS, R.res))))))

(* while (getNextToken() == tok_identifier) ArgNames.push_back(IdentifierStr); *)
RECURSIVE ReadArgNames(_, _, _)
ReadArgNames(s, d, ArgNames) ==
    Let(getNextToken(s, d + 1), LAMBDA t :
        IF t.CurTok = tok_identifier
        THEN ReadArgNames(t, d, Append(ArgNames, t.IdentifierStr))
        ELSE Ret(t, ArgNames))

(* prototype ::= id '(' id* ')' *)
ParsePrototype(s0, d) ==
    Let(Enter(s0, d), LAMBDA s :
        IF s.CurTok # tok_identifier
        THEN LogErrorP(s, d + 1, "Expected function name in prototype")
        ELSE Let(getNextToken(s, d + 1), LAMBDA t :
             IF t.CurTok # Ord("(")
             THEN LogErrorP(t, d + 1, "Expected '(' in prototype")
             ELSE Let(ReadArgNames(t, d, <<>>), LAMBDA a :
                  IF a.st.CurTok # Ord(")")
                  THEN LogErrorP(a.st, d + 1, "Expected ')' in prototype")
                  ELSE Ret(getNextToken(a.st, d + 1),
                           PrototypeAST(s.IdentifierStr, a.res)))))

(* Faulty variant: the test  if (!Proto) return nullptr  is left out, so  *)
(* the body is parsed after a failed prototype.                            *)
ParseDefinition_BodyAfterFailedProto(s, d) ==
    Let(ParsePrototype(getNextToken(Enter(s, d), d + 1), d + 1), LAMBDA Proto :
        Let(ParseExpression(Proto.st, d + 1), LAMBDA E :
            IF E.res # nullptr /\ Proto.res # nullptr
            THEN Ret(E.st, FunctionAST(Proto.res, E.res))
            ELSE Ret(E.st, nullptr)))

(* definition ::= 'def' prototype expression *)
ParseDefinition(s, d) ==
    Let(ParsePrototype(getNextToken(Enter(s, d), d + 1), d + 1), LAMBDA Proto :
        IF Proto.res = nullptr THEN Ret(Proto.st, nullptr)
        ELSE Let(ParseExpression(Proto.st, d + 1), LAMBDA E :
             IF E.res # nullptr THEN Ret(E.st, FunctionAST(Proto.res, E.res))
             ELSE Ret(E.st, nullptr)))

(* external ::= 'extern' prototype *)
ParseExtern(s, d) == ParsePrototype(getNextToken(Enter(s, d), d + 1), d + 1)

(* toplevelexpr ::= expression *)
ParseTopLevelExpr(s, d) ==
    Let(ParseExpression(Enter(s, d), d + 1), LAMBDA E :
        IF E.res # nullptr
        THEN Ret(E.st, FunctionAST(PrototypeAST(<<>>, <<>>), E.res))
        ELSE Ret(E.st, nullptr))

(* Faulty variant: a failed parse is not followed by getNextToken(). *)
Handle_NoRecovery(parsed, d, report) ==
    Let(parsed, LAMBDA r :
        [ret |-> r,
         st |-> IF r.res # nullptr THEN fprintf(r.st, "fprintf", report)
                ELSE r.st])

(* HandleDefinition, HandleExtern and HandleTopLevelExpression: the parse, *)
(* then the report or the skipped token.  ret is the parse's return, st    *)
(* the statics when the handler returns.                                   *)
Handle(parsed, d, report) ==
    Let(parsed, LAMBDA r :
        [ret |-> r,
         st |-> IF r.res # nullptr THEN fprintf(r.st, "fprintf", report)
                ELSE getNextToken(r.st, d + 1)])

HandleDefinition(s, d) ==
    Handle(ParseDefinition(Enter(s, d), d + 1), d, "Parsed a function definition.")

HandleExtern(s, d) ==
    Handle(ParseExtern(Enter(s, d), d + 1), d, "Parsed an extern")

HandleTopLevelExpression(s, d) ==
    Handle(ParseTopLevelExpr(Enter(s, d), d + 1), d, "Parsed a top-level expr")

----------------------------------------------------------------------------
(* The statics as a record, and back. *)
Statics(in) ==
    [in |-> in, pos |-> pos, LastChar |-> LastChar,
     IdentifierStr |-> IdentifierStr, NumberVal |-> NumberVal,
     CurTok |-> CurTok, BinopPrecedence |-> BinopPrecedence,
     stderr |-> stderr, ntok |-> ntok, maxd |-> 0]

Store(s) ==
    /\ pos' = s.pos
    /\ LastChar' = s.LastChar
    /\ IdentifierStr' = s.IdentifierStr
    /\ NumberVal' = s.NumberVal
    /\ CurTok' = s.CurTok
    /\ BinopPrecedence' = s.BinopPrecedence
    /\ stderr' = s.stderr
    /\ ntok' = s.ntok
    /\ UNCHANGED <<chunks, input>>

(* What a step leaves for inspection: the statics before it (pre), at the  *)
(* return of the parsing function it called (ret), that function's result  *)
(* (res) and the deepest frame of the step (maxd).                         *)
Snap(s) == [f \in DOMAIN s \ {"in", "maxd"} |-> s[f]]
Did(op, s, r, end) ==
    [op |-> op, pre |-> Snap(s), ret |-> Snap(r.st), res |-> r.res,
     maxd |-> end.maxd]

(* Static storage before main() runs. *)
ZeroStatics ==
    /\ pos = 1
    /\ LastChar = " "
    /\ IdentifierStr = <<>>
    /\ NumberVal = [int |-> 0, frac |-> <<>>]
    /\ CurTok = 0
    /\ BinopPrecedence = [k \in {} |-> 0]
    /\ stderr = <<>>
    /\ ntok = 0
    /\ pc = "start"
    /\ last = [op |-> "none"]

(* The program started on the text in. *)
Started(in) ==
    [in |-> in, pos |-> 1, LastChar |-> " ", IdentifierStr |-> <<>>,
     NumberVal |-> [int |-> 0, frac |-> <<>>], CurTok |-> 0,
     BinopPrecedence |-> StandardBinops, stderr |-> <<>>, ntok |-> 0, maxd |-> 0]

(* main() up to MainLoop(): install the standard binary operators, prompt, *)
(* prime the first token.  main is frame 1.                                *)
MainPrime(s) ==
    getNextToken(fprintf([Enter(s, 1) EXCEPT !.BinopPrecedence =
                              StandardBinops @@ s.BinopPrecedence],
                         "fprintf", "ready> "), 2)

Main ==
    /\ pc = "start"
    /\ \E e \in {MainPrime(Statics(input))} :
           /\ Store(e)
           /\ last' = Did("main", Statics(input), Ret(e, nullptr), e)
    /\ pc' = "loop"

(* One turn of MainLoop's while (1): the prompt, then the switch on        *)
(* CurTok.  MainLoop is frame 2, a handler frame 3.                        *)
Prompted == fprintf(Enter(Statics(input), 2), "fprintf", "ready> ")

LoopEof ==
    /\ pc = "loop"
    /\ CurTok = tok_eof
    /\ Store(Prompted)
    /\ last' = Did("return", Prompted, Ret(Prompted, nullptr), Prompted)
    /\ pc' = "done"

LoopSemicolon ==
    /\ pc = "loop"
    /\ CurTok = Ord(";")
    /\ \E e \in {getNextToken(Prompted, 3)} :
           /\ Store(e)
           /\ last' = Did("semicolon", Prompted, Ret(e, nullptr), e)
    /\ pc' = "loop"

LoopDefinition ==
    /\ pc = "loop"
    /\ CurTok = tok_def
    /\ \E h \in {HandleDefinition(Prompted, 3)} :
           /\ Store(h.st)
           /\ last' = Did("HandleDefinition", Prompted, h.ret, h.st)
    /\ pc' = "loop"

LoopExtern ==
    /\ pc = "loop"
    /\ CurTok = tok_extern
    /\ \E h \in {HandleExtern(Prompted, 3)} :
           /\ Store(h.st)
           /\ last' = Did("HandleExtern", Prompted, h.ret, h.st)
    /\ pc' = "loop"

LoopTopLevelExpression ==
    /\ pc = "loop"
    /\ CurTok \notin {tok_eof, Ord(";"), tok_def, tok_extern}
    /\ \E h \in {HandleTopLevelExpression(Prompted, 3)} :
           /\ Store(h.st)
           /\ last' = Did("HandleTopLevelExpression", Prompted, h.ret, h.st)
    /\ pc' = "loop"

Next ==
    \/ Main
    \/ LoopEof
    \/ LoopSemicolon
    \/ LoopDefinition
    \/ LoopExtern
    \/ LoopTopLevelExpression

----------------------------------------------------------------------------
(* The texts on standard input. *)
RECURSIVE Flatten(_)
Flatten(cs) == IF cs = <<>> THEN <<>> ELSE Head(cs) \o Flatten(Tail(cs))

SeqsUpTo(S, n) == UNION {[1..k -> S] : k \in 0..n}

(* The text arrives as at most n chunks drawn from S. *)
ChunksUpTo(S, n) == \E k \in 0..n : chunks \in [1..k -> S]

MaxChunks == 4

DriverChunks ==
    { <<"d","e","f"," ">>, <<"e","x","t","e","r","n"," ">>, <<"x">>, <<"1">>,
      <<"(">>, <<")">>, <<",">>, <<"+">>, <<";">> }

Init ==
    /\ ChunksUpTo(DriverChunks, MaxChunks)
    /\ input = Flatten(chunks)
    /\ ZeroStatics

Spec == Init /\ [][Next]_vars

(* The parsing functions called on their own, once the first token is     *)
(* primed: ParseExpression on any text, ParseParenExpr with "(" as the     *)
(* lookahead, ParseIdentifierExpr with an identifier as the lookahead.     *)
CallParseExpression ==
    /\ pc = "loop"
    /\ \E r \in {ParseExpression(Statics(input), 1)} :
           /\ Store(r.st)
           /\ last' = Did("ParseExpression", Statics(input), r, r.st)
    /\ pc' = "called"

CallParseParenExpr ==
    /\ pc = "loop"
    /\ CurTok = Ord("(")
    /\ \E r \in {ParseParenExpr(Statics(input), 1)} :
           /\ Store(r.st)
           /\ last' = Did("ParseParenExpr", Statics(input), r, r.st)
    /\ pc' = "called"

CallParseIdentifierExpr ==
    /\ pc = "loop"
    /\ CurTok = tok_identifier
    /\ \E r \in {ParseIdentifierExpr(Statics(input), 1)} :
           /\ Store(r.st)
           /\ last' = Did("ParseIdentifierExpr", Statics(input), r, r.st)
    /\ pc' = "called"

ExprNext ==
    \/ Main
    \/ CallParseExpression
    \/ CallParseParenExpr
    \/ CallParseIdentifierExpr

(* Expression texts: chains  p op p ... op p,  parenthesised chains with   *)
(* or without an operator and a primary after them, and calls.             *)
MaxOps == 3
MaxArgs == 2

Ops == { <<"+">>, <<"-">>, <<"*">>, <<"<">> }
Atoms == { <<"1">>, <<"x">> }
Primaries == Atoms \cup { <<"(", "2", "+", "y", ")">> }
ArgExprs == { <<"1">>, <<"x">>, <<"1", "+", "x">>, <<"g", "(", ")">> }
Callees == { <<"f">>, <<"f", "o", "o", " ">> }
Tails == { <<>>, << <<"+">>, <<"1">> >>, << <<")">> >>, << <<";">> >>,
           << <<"(">> >> }

IsChainOver(cs, P) ==
    /\ Len(cs) % 2 = 1
    /\ \A i \in 1..Len(cs) : IF i % 2 = 1 THEN cs[i] \in P ELSE cs[i] \in Ops

RECURSIVE ChainsOver(_, _)
ChainsOver(P, n) ==
    IF n = 0 THEN { <<p>> : p \in P }
    ELSE { cs \o <<o, p>> : cs \in ChainsOver(P, n - 1), o \in Ops, p \in P }

ChainInputs(n) == ChainsOver(Primaries, n)

ParenInputs ==
    { << <<"(">> >> \o e \o << <<")">> >> \o r :
        e \in ChainsOver(Atoms, 0) \cup ChainsOver(Atoms, 1),
        r \in { <<>> } \cup { <<o, c>> : o \in Ops, c \in Atoms } }

(* a1, a2, ...  ->  a1 "," a2 "," ... *)
RECURSIVE CommaSeparated(_)
CommaSeparated(as) ==
    IF Len(as) <= 1 THEN as
    ELSE << Head(as), <<",">> >> \o CommaSeparated(Tail(as))

CallInputs ==
    { << c, <<"(">> >> \o CommaSeparated(as) \o << <<")">> >> \o tl :
        c \in Callees, as \in SeqsUpTo(ArgExprs, MaxArgs), tl \in Tails }

ExprInit ==
    /\ \/ \E n \in 0..MaxOps : chunks \in ChainInputs(n)
       \/ chunks \in ParenInputs
       \/ chunks \in CallInputs
    /\ input = Flatten(chunks)
    /\ ZeroStatics

SpecExpr == ExprInit /\ [][ExprNext]_vars

(* The scanner called on its own until it returns end of input. *)
CallGetNextToken ==
    /\ pc \in {"start", "lexing"}
    /\ \E e \in {getNextToken(Statics(input), 1)} :
           /\ Store(e)
           /\ last' = Did("getNextToken", Statics(input), Ret(e, nullptr), e)
           /\ pc' = IF e.CurTok = tok_eof THEN "done" ELSE "lexing"

MaxLexChunks == 3

LexChunks ==
    { <<"d","e","f">>, <<"e","x","t","e","r","n">>, <<"d">>, <<"e","f">>,
      <<"s">>, <<"D">>, <<"1">>, <<" ">>, <<"(">> }

LexInit ==
    /\ ChunksUpTo(LexChunks, MaxLexChunks)
    /\ input = Flatten(chunks)
    /\ ZeroStatics

SpecLex == LexInit /\ [][CallGetNextToken]_vars

(* main() on texts of expressions, comments and nested parentheses and     *)
(* calls: only the end of input and the top-level expression are met.      *)
DepthNext ==
    \/ Main
    \/ LoopEof
    \/ LoopTopLevelExpression

MaxDepthChunks == 4

DepthChunks ==
    { <<"1">>, <<"<","1">>, <<"+","1","*","1">>, <<"(">>, <<"f","(">>, <<")">>,
      <<"#","a","\n","#","b","\n">> }

DepthInit ==
    /\ ChunksUpTo(DepthChunks, MaxDepthChunks)
    /\ input = Flatten(chunks)
    /\ ZeroStatics

SpecDepth == DepthInit /\ [][DepthNext]_vars

(* The fair run of main(): a step that can be taken is taken. *)
MaxLiveChunks == 3

LiveInit ==
    /\ ChunksUpTo(DriverChunks, MaxLiveChunks)
    /\ input = Flatten(chunks)
    /\ ZeroStatics

FairSpec == LiveInit /\ [][Next]_vars /\ WF_vars(Next)

----------------------------------------------------------------------------
(* What the claims speak of. *)

(* The statics of a snapshot, as the parsing functions take them. *)
Unsnap(snap) == snap @@ [in |-> input, maxd |-> 0]

(* A token with what it carries. *)
TokOf(tok, s) ==
    [tok |-> tok,
     text |-> IF tok \in {tok_identifier, tok_def, tok_extern}
              THEN s.IdentifierStr ELSE <<>>,
     num |-> IF tok = tok_number THEN s.NumberVal ELSE [int |-> 0, frac |-> <<>>]]

(* The tokens the scanner has yet to return, up to end of input. *)
RECURSIVE Unscanned(_)
Unscanned(s) ==
    Let(gettok(s, 1), LAMBDA r :
        IF r.tok = tok_eof THEN <<>>
        ELSE <<TokOf(r.tok, r.st)>> \o Unscanned(r.st))

(* The tokens a parse starting with the statics s has before it: the       *)
(* lookahead, then what the scanner has yet to return.                     *)
Pending(s) ==
    IF s.CurTok = tok_eof THEN <<>> ELSE <<TokOf(s.CurTok, s)>> \o Unscanned(s)

Handlers == {"HandleDefinition", "HandleExtern", "HandleTopLevelExpression"}

(* The messages LogError wrote during the last step. *)
Reported ==
    SelectSeq(SubSeq(stderr, Len(last.pre.stderr) + 1, Len(stderr)),
              LAMBDA e : e.fn = "LogError")

PrototypeMessages ==
    {"Expected function name in prototype", "Expected '(' in prototype",
     "Expected ')' in prototype"}

(* The last step was HandleDefinition or HandleExtern, and its parse       *)
(* failed on the prototype.                                                *)
PrototypeFailed ==
    /\ last.op \in {"HandleDefinition", "HandleExtern"}
    /\ last.res = nullptr
    /\ Len(Reported) >= 1
    /\ Reported[1].msg \in PrototypeMessages

(* The top-level parse MainLoop would start on the statics s succeeds. *)
ValidConstructAt(s) ==
    IF s.CurTok = tok_def THEN ParseDefinition(s, 4).res # nullptr
    ELSE IF s.CurTok = tok_extern THEN ParseExtern(s, 4).res # nullptr
    ELSE IF s.CurTok \in {tok_eof, Ord(";")} THEN FALSE
    ELSE ParseTopLevelExpr(s, 4).res # nullptr

(* C5 as stated: after a failed prototype and the driver's recovery, a     *)
(* valid definition, extern or expression that follows the error point     *)
(* (the parse having consumed nothing beyond it) still has all its tokens  *)
(* before the next top-level parse.                                        *)
C5_ValidConstructKept ==
    (PrototypeFailed /\ ValidConstructAt(Unsnap(last.ret)))
        => Pending(Statics(input)) = Pending(Unsnap(last.ret))

(* C5, amended: a malformed prototype makes parseDefinition / parseExtern  *)
(* return no result with exactly one message, a prototype message; the     *)
(* lookahead on return is the token at which the error was detected; and   *)
(* the driver's recovery discards exactly that token, so the next          *)
(* top-level parse has before it every token after the offending one.      *)
C5_RecoverySkipsOffendingToken ==
    PrototypeFailed =>
        /\ Len(Reported) = 1
        /\ last.ret.ntok = Reported[1].at
        /\ last.ret.CurTok = Reported[1].tok
        /\ Pending(Statics(input)) =
               IF Pending(Unsnap(last.ret)) = <<>> THEN <<>>
               ELSE Tail(Pending(Unsnap(last.ret)))

(* A prototype failed before end of input with a valid construct at the    *)
(* offending token and tokens after it.                                    *)
C5_Witness ==
    /\ PrototypeFailed
    /\ ValidConstructAt(Unsnap(last.ret))
    /\ Len(Pending(Unsnap(last.ret))) >= 2

(* A tree with no missing part. *)
RECURSIVE Complete(_)
AllComplete(ts) == \A i \in 1..Len(ts) : Complete(ts[i])
Complete(t) ==
    CASE t.node = "nullptr" -> FALSE
      [] t.node = "Binary" -> Complete(t.LHS) /\ Complete(t.RHS)
      [] t.node = "Call" -> AllComplete(t.Args)
      [] t.node = "Function" -> Complete(t.Proto) /\ Complete(t.Body)
      [] OTHER -> TRUE

(* C6: a top-level parse returns no result exactly when a failure was      *)
(* reported inside it, and then nothing was parsed after the failure; a    *)
(* result it returns is a whole tree.                                      *)
C6_FailurePropagates ==
    last.op \in Handlers =>
        /\ (last.res = nullptr) <=> (Len(Reported) >= 1)
        /\ Len(Reported) <= 1
        /\ Len(Reported) = 1 => last.ret.ntok = Reported[1].at
        /\ last.res # nullptr => Complete(last.res)

(* The right-hand side of a binary operator failed inside a top-level      *)
(* expression, after a primary and the operator had been parsed.           *)
C6_Witness ==
    /\ last.op = "HandleTopLevelExpression"
    /\ last.res = nullptr
    /\ Len(Reported) = 1
    /\ Reported[1].msg = "unknown token when expecting an expression"
    /\ Reported[1].at >= 3
    /\ last.pre.CurTok \in {tok_number, tok_identifier}

(* C7: once main() has installed the standard operators, no step changes   *)
(* the precedence table, neither its keys nor a mapped value.              *)
C7_TableReadOnly == [][pc # "start" => BinopPrecedence' = BinopPrecedence]_vars

(* The tokens consumed so far: those scanned, less the lookahead. *)
Consumed == ntok - (IF pc # "start" /\ CurTok # tok_eof THEN 1 ELSE 0)

(* C9: main() reaches end of input and stops; a turn of the loop that does *)
(* not stop consumes at least one token, also when its parse fails; and    *)
(* after the scanner has returned end of input, a later call returns it    *)
(* again and reads nothing.                                                *)
C9_Terminates ==
    /\ <>(pc = "done")
    /\ [][(pc = "loop" /\ pc' = "loop") => Consumed' > Consumed]_vars
    /\ [](CurTok = tok_eof =>
             /\ gettok(Statics(input), 1).tok = tok_eof
             /\ gettok(Statics(input), 1).st = Enter(Statics(input), 1))
    /\ []((last.op \in Handlers /\ last.ret.CurTok = tok_eof) =>
             CurTok = tok_eof)

(* The loop has stopped after a turn whose parse failed at end of input    *)
(* and whose recovery called the scanner once more.                        *)
C9_Witness ==
    /\ pc = "done"
    /\ Len(stderr) >= 4
    /\ \E i \in 1..Len(stderr) :
           stderr[i].fn = "LogError" /\ stderr[i].tok = tok_eof

----------------------------------------------------------------------------
(* The trees the claims name. *)
Num(n) == NumberExprAst([int |-> n, frac |-> <<>>])
Var(c) == VariableExprAST(<<c>>)

(* The tree of a primary or an argument of the expression texts. *)
TreeOfText(p) ==
    CASE p = <<"1">> -> Num(1)
      [] p = <<"x">> -> Var("x")
      [] p = <<"(", "2", "+", "y", ")">> -> BinaryExprAST(43, Num(2), Var("y"))
      [] p = <<"1", "+", "x">> -> BinaryExprAST(43, Num(1), Var("x"))
      [] p = <<"g", "(", ")">> -> CallExprAST(<<"g">>, <<>>)

(* The declared precedence of an operator chunk. *)
PrecOf(o) == StandardBinops[Ord(o[1])]

(* ((p1 op1 p2) op2 p3) ... : the fully left-nested tree of a chain. *)
RECURSIVE LeftNested(_)
LeftNested(cs) ==
    IF Len(cs) = 1 THEN TreeOfText(cs[1])
    ELSE BinaryExprAST(Ord(cs[Len(cs) - 1][1]),
                       LeftNested(SubSeq(cs, 1, Len(cs) - 2)),
                       TreeOfText(cs[Len(cs)]))

ParsedChain(n) ==
    /\ last.op = "ParseExpression"
    /\ IsChainOver(chunks, Primaries)
    /\ Len(chunks) = 2 * n + 1

(* C1: a op1 b op2 c with precedence(op2) > precedence(op1) parses to      *)
(* op1(a, op2(b, c)).                                                      *)
C1_PrecedenceLaw ==
    (ParsedChain(2) /\ PrecOf(chunks[4]) > PrecOf(chunks[2])) =>
        last.res = BinaryExprAST(Ord(chunks[2][1]), TreeOfText(chunks[1]),
                       BinaryExprAST(Ord(chunks[4][1]), TreeOfText(chunks[3]),
                                     TreeOfText(chunks[5])))

(* 1 + (2+y) * x has been parsed. *)
C1_Witness ==
    /\ ParsedChain(2)
    /\ chunks = << <<"1">>, <<"+">>, <<"(", "2", "+", "y", ")">>, <<"*">>, <<"x">> >>
    /\ last.res.node = "Binary"

(* C2: a op1 b op2 c with precedence(op2) <= precedence(op1) parses to     *)
(* op2(op1(a, b), c), and a chain of operators of one precedence, of any   *)
(* length, parses to the fully left-nested tree.                           *)
C2_LeftAssociativity ==
    /\ (ParsedChain(2) /\ PrecOf(chunks[4]) <= PrecOf(chunks[2])) =>
           last.res = BinaryExprAST(Ord(chunks[4][1]),
                          BinaryExprAST(Ord(chunks[2][1]), TreeOfText(chunks[1]),
                                        TreeOfText(chunks[3])),
                          TreeOfText(chunks[5]))
    /\ \A n \in 1..(MaxOps + 1) :
           (/\ ParsedChain(n)
            /\ \A i, j \in 1..n : PrecOf(chunks[2 * i]) = PrecOf(chunks[2 * j]))
               => last.res = LeftNested(chunks)

(* A chain of MaxOps operators that mixes + and - has been parsed. *)
C2_Witness ==
    /\ ParsedChain(MaxOps)
    /\ \A i \in 1..MaxOps : chunks[2 * i] \in { <<"+">>, <<"-">> }
    /\ chunks[2] # chunks[4]
    /\ last.res.node = "Binary"

(* The chunks between the first chunk, "(", and the chunk ")" that closes  *)
(* it, and the chunks after that ")".                                      *)
CloseAt == CHOOSE i \in 1..Len(chunks) : chunks[i] = <<")">>
Inside == SubSeq(chunks, 2, CloseAt - 1)
After == SubSeq(chunks, CloseAt + 1, Len(chunks))

(* C3: ParseParenExpr on ( e ) returns the tree of e and no more, and      *)
(* (a op1 b) op2 c parses to op2(op1(a, b), c) whatever the precedences.   *)
C3_ParenTransparent ==
    /\ (last.op = "ParseParenExpr" /\ chunks \in ParenInputs) =>
           /\ last.res =
                  ParseExpression(MainPrime(Started(Flatten(Inside))), 1).res
           /\ last.res = LeftNested(Inside)
           /\ Pending(Statics(input)) =
                  Pending(MainPrime(Started(Flatten(After))))
    /\ (last.op = "ParseExpression" /\ chunks \in ParenInputs /\ After # <<>>) =>
           last.res = BinaryExprAST(Ord(After[1][1]), LeftNested(Inside),
                                    TreeOfText(After[2]))

(* (a + b) * c has been parsed by ParseExpression. *)
C3_Witness ==
    /\ last.op = "ParseExpression"
    /\ chunks \in ParenInputs
    /\ Len(Inside) = 3
    /\ After # <<>>
    /\ PrecOf(After[1]) > PrecOf(Inside[2])
    /\ last.res.node = "Binary"

(* The argument chunks of a call text. *)
ArgsOf(cs) == SelectSeq(SubSeq(cs, 3, Len(cs)), LAMBDA c : c \in ArgExprs)
ArgChunks ==
    IF chunks[3] = <<")">> THEN <<>>
    ELSE LET close == CHOOSE i \in 4..Len(chunks) :
                          /\ chunks[i] = <<")">>
                          /\ \A j \in 4..(i - 1) : chunks[j] # <<")">>
         IN  ArgsOf(SubSeq(chunks, 1, close))
CallTail == SubSeq(chunks, 3 + Len(CommaSeparated(ArgChunks)) + 1, Len(chunks))

(* C4: ParseIdentifierExpr on  callee ( a1 , ... , an )  returns the Call  *)
(* of callee on the trees of a1 ... an in that order (none for an empty    *)
(* pair), and has consumed the closing ")" and nothing after it.           *)
C4_CallParsing ==
    (last.op = "ParseIdentifierExpr" /\ chunks \in CallInputs) =>
        /\ last.res =
               CallExprAST(SelectSeq(chunks[1], LAMBDA c : c # " "),
                           [i \in 1..Len(ArgChunks) |-> TreeOfText(ArgChunks[i])])
        /\ Pending(Statics(input)) =
               Pending(MainPrime(Started(Flatten(CallTail))))

(* A call with MaxArgs arguments, an operator after it, has been parsed. *)
C4_Witness ==
    /\ last.op = "ParseIdentifierExpr"
    /\ chunks \in CallInputs
    /\ Len(ArgChunks) = MaxArgs
    /\ ArgChunks[1] # ArgChunks[2]
    /\ CallTail = << <<"+">>, <<"1">> >>
    /\ last.res.node = "Call"

----------------------------------------------------------------------------
(* The characters a call of the scanner has before it: its pending         *)
(* LastChar, then what getchar() has yet to return.                        *)
Ahead(s) ==
    IF s.LastChar = EOF THEN <<>>
    ELSE <<s.LastChar>> \o SubSeq(input, s.pos, Len(input))

(* The first character of a that is not white space (Len(a) + 1: none). *)
FirstNonSpace(a) ==
    CHOOSE i \in 1..(Len(a) + 1) :
        /\ \A j \in 1..(i - 1) : isspace(a[j])
        /\ i <= Len(a) => ~isspace(a[i])

(* The last character of the longest run of letters and digits from i. *)
WordEnd(a, i) ==
    CHOOSE k \in i..Len(a) :
        /\ \A j \in i..k : isalnum(a[j])
        /\ k < Len(a) => ~isalnum(a[k + 1])

(* The scanner was called with a letter as the first character that is not *)
(* white space.                                                            *)
ScannedWord ==
    /\ last.op = "getNextToken"
    /\ FirstNonSpace(Ahead(last.pre)) <= Len(Ahead(last.pre))
    /\ isalpha(Ahead(last.pre)[FirstNonSpace(Ahead(last.pre))])

Word ==
    SubSeq(Ahead(last.pre), FirstNonSpace(Ahead(last.pre)),
           WordEnd(Ahead(last.pre), FirstNonSpace(Ahead(last.pre))))

(* C8: the scanner takes the longest run of letters and digits that starts *)
(* with a letter; the run is the text the token carries; the token is the  *)
(* keyword token exactly for "def" and for "extern" and the identifier     *)
(* token for every other run; and the scanner stops right after the run.   *)
C8_IdentifierOrKeyword ==
    ScannedWord =>
        /\ IdentifierStr = Word
        /\ CurTok = tok_def <=> Word = <<"d", "e", "f">>
        /\ CurTok = tok_extern <=> Word = <<"e", "x", "t", "e", "r", "n">>
        /\ CurTok \in {tok_def, tok_extern, tok_identifier}
        /\ Ahead(Statics(input)) =
               SubSeq(Ahead(last.pre),
                      WordEnd(Ahead(last.pre), FirstNonSpace(Ahead(last.pre))) + 1,
                      Len(Ahead(last.pre)))

(* A longer word that begins with a keyword was scanned as an identifier. *)
C8_Witness ==
    /\ ScannedWord
    /\ Len(Word) > 3
    /\ SubSeq(Word, 1, 3) = <<"d", "e", "f">>
    /\ CurTok = tok_identifier

(* The tokens of the whole text. *)
AllTokens == Pending(MainPrime(Started(input)))

(* The deepest nesting of "(" in a sequence of tokens; a ")" with nothing  *)
(* open closes nothing.                                                    *)
RECURSIVE NestingFrom(_, _, _, _)
NestingFrom(ts, i, open, deepest) ==
    IF i > Len(ts) THEN deepest
    ELSE IF ts[i].tok = Ord("(")
    THEN NestingFrom(ts, i + 1, open + 1, Max(deepest, open + 1))
    ELSE IF ts[i].tok = Ord(")")
    THEN NestingFrom(ts, i + 1, Max(open - 1, 0), deepest)
    ELSE NestingFrom(ts, i + 1, open, deepest)

Nesting == NestingFrom(AllTokens, 1, 0, 0)

(* The longest run of comment lines with only white space between them. *)
RECURSIVE CommentRunFrom(_, _, _, _)
CommentRunFrom(i, inComment, run, longest) ==
    IF i > Len(input) THEN longest
    ELSE IF inComment
    THEN CommentRunFrom(i + 1, input[i] \notin {"\n", "\r"}, run, longest)
    ELSE IF input[i] = "#"
    THEN CommentRunFrom(i + 1, TRUE, run + 1, Max(longest, run + 1))
    ELSE IF isspace(input[i]) THEN CommentRunFrom(i + 1, FALSE, run, longest)
    ELSE CommentRunFrom(i + 1, FALSE, 0, longest)

CommentRun == CommentRunFrom(1, FALSE, 0, 0)

(* The frames of a parse with no nesting: main, MainLoop, the handler, the *)
(* top-level parsing function, ParseExpression, one ParseBinOpRHS for each *)
(* declared precedence, ParsePrimary, the function of the primary,         *)
(* getNextToken, gettok.  A level of nesting adds the function of the      *)
(* primary, ParseExpression, the ParseBinOpRHS frames and ParsePrimary.    *)
PrecedenceLevels == Cardinality({StandardBinops[k] : k \in DOMAIN StandardBinops})
FlatDepth == 9 + PrecedenceLevels
DepthPerNesting == 3 + PrecedenceLevels

(* C10 as stated: the depth of the call stack, scanner included, is at     *)
(* most a fixed linear function of the nesting depth of the text.          *)
C10_DepthBoundedByNesting ==
    last.op # "none" => last.maxd <= FlatDepth + DepthPerNesting * Nesting

(* C10, amended: the depth of the call stack is at most a fixed linear     *)
(* function of the nesting depth of the text plus the length of the        *)
(* longest run of consecutive comment lines, each of which adds a frame of *)
(* gettok.                                                                 *)
C10_DepthBoundedByNestingAndComments ==
    last.op # "none" =>
        last.maxd <= FlatDepth + DepthPerNesting * Nesting + CommentRun

(* The bound is met with nesting and comments at once. *)
C10_Witness ==
    /\ last.op = "HandleTopLevelExpression"
    /\ Nesting >= 1
    /\ CommentRun >= 2
    /\ last.maxd > FlatDepth
====
